---- MODULE Spec2Model ----
(***************************************************************************)
(* Time Tethered: Aim Trainer (src/game.py).                               *)
(*                                                                         *)
(* The model covers the Leaderboard class (load, save, add_score,          *)
(* get_top_scores, get_rank) and the Game class (reset_game, spawn_target, *)
(* update, handle_events, draw and the frame loop of run).                 *)
(*                                                                         *)
(* Time.  time.time() is a float number of seconds; the model counts time  *)
(* in tenths of a second, so GAME_DURATION = 30 s is 300, the spawn rates  *)
(* 1.5 / 1.0 / 0.7 s are 15 / 10 / 7 and the hit animation of 0.3 s is 3.  *)
(* Every call of time.time() is a separate reading of the clock: the clock *)
(* may advance between two handlers (AdvanceTime) and between two readings *)
(* inside one handler.                                                     *)
(***************************************************************************)
EXTENDS Integers, Sequences, FiniteSets, TLC

VARIABLES
    run,              \* "running", "exited" (sys.exit) or "crashed" (uncaught exception)
    now,              \* the clock: the value the last time.time() returned
    state,            \* Game.state
    difficulty,       \* Game.difficulty
    target_size,      \* Game.target_size
    spawn_rate,       \* Game.spawn_rate
    max_targets,      \* Game.max_targets
    score,            \* Game.score
    targets,          \* Game.targets, in insertion order
    last_spawn_time,  \* Game.last_spawn_time
    game_start_time,  \* Game.game_start_time
    scores,           \* Leaderboard.scores
    file,             \* the content of LEADERBOARD_FILE on disk
    calls,            \* number of direct Leaderboard calls made (SpecLB only)
    last              \* the operation handled last: [op, arg, res]

vars == <<run, now, state, difficulty, target_size, spawn_rate, max_targets,
          score, targets, last_spawn_time, game_start_time, scores, file, calls, last>>

gameVars == <<now, state, difficulty, target_size, spawn_rate, max_targets,
              score, targets, last_spawn_time, game_start_time>>

(***************************************************************************)
(* Program constants                                                       *)
(***************************************************************************)
WIDTH == 800
HEIGHT == 600
GAME_DURATION == 300
HIT_ANIMATION_DURATION == 3
TOP_SCORES_KEPT == 10
DEFAULT_COUNT == 5

Tiers == {"Easy", "Medium", "Hard"}

DIFFICULTY_SETTINGS ==
    [Easy   |-> [target_size |-> 40, spawn_rate |-> 15, max_targets |-> 4],
     Medium |-> [target_size |-> 30, spawn_rate |-> 10, max_targets |-> 6],
     Hard   |-> [target_size |-> 20, spawn_rate |-> 7,  max_targets |-> 8]]

Max(a, b) == IF a >= b THEN a ELSE b
Min(a, b) == IF a <= b THEN a ELSE b

(***************************************************************************)
(* Leaderboard                                                             *)
(*                                                                         *)
(* Leaderboard.scores is whatever json.load returned, so it is modelled as *)
(* a JSON value: kind "dict" with a map from keys to entries, or a JSON    *)
(* array or null at the top level.  An entry is a list of integers or a    *)
(* number standing where a list is expected.                               *)
(***************************************************************************)
ListEntry(s) == [kind |-> "list", items |-> s]
IntEntry == [kind |-> "int", items |-> <<>>]

DictStore(m) == [kind |-> "dict", map |-> m]
ListStore == [kind |-> "list", map |-> <<>>]
NullStore == [kind |-> "null", map |-> <<>>]

DefaultStore == DictStore([t \in Tiers |-> ListEntry(<<>>)])

\* list.sort(reverse=True): insertion of each element into a descending run.
RECURSIVE InsertDesc(_, _)
InsertDesc(s, v) ==
    IF s = <<>> THEN <<v>>
    ELSE IF v > Head(s) THEN <<v>> \o s
    ELSE <<Head(s)>> \o InsertDesc(Tail(s), v)

RECURSIVE SortDesc(_)
SortDesc(s) ==
    IF s = <<>> THEN <<>>
    ELSE InsertDesc(SortDesc(Tail(s)), Head(s))

\* Python's seq[:count]: a negative count is taken from the end.
PySlice(s, count) ==
    LET n == IF count >= 0 THEN Min(count, Len(s)) ELSE Max(0, Len(s) + count)
    IN  SubSeq(s, 1, n)

\* Leaderboard.load applied to the store __init__ built (cur) and the file f.
load(cur, f) ==
    IF f.status = "absent" THEN cur
    ELSE IF f.status = "corrupt" THEN DefaultStore
    ELSE f.content

\* add_score without the truncation to the top 10.
add_score_NoTruncation(S, d, s) ==
    IF S.kind # "dict" THEN [store |-> S, err |-> TRUE]
    ELSE LET m1 == IF d \notin DOMAIN S.map
                   THEN (d :> ListEntry(<<>>)) @@ S.map
                   ELSE S.map
             e  == m1[d]
         IN  IF e.kind # "list" THEN [store |-> S, err |-> TRUE]
             ELSE [store |-> DictStore([m1 EXCEPT ![d] =
                       ListEntry(SortDesc(Append(e.items, s)))]),
                   err |-> FALSE]

\* Leaderboard.add_score up to (not including) self.save(): [store, err].
add_score(S, d, s) ==
    IF S.kind # "dict" THEN [store |-> S, err |-> TRUE]
    ELSE LET m1 == IF d \notin DOMAIN S.map
                   THEN (d :> ListEntry(<<>>)) @@ S.map
                   ELSE S.map
             e  == m1[d]
         IN  IF e.kind # "list" THEN [store |-> S, err |-> TRUE]
             ELSE [store |-> DictStore([m1 EXCEPT ![d] =
                       ListEntry(PySlice(SortDesc(Append(e.items, s)), TOP_SCORES_KEPT))]),
                   err |-> FALSE]

\* Leaderboard.save: w is what the write attempt does.
save(S, f, w) ==
    IF w = "ok" THEN [status |-> "json", content |-> S]
    ELSE IF w = "fail_open" THEN f
    ELSE [status |-> "corrupt", content |-> DefaultStore]

\* get_top_scores without the test for an unknown key (a KeyError).
get_top_scores_NoKeyTest(S, d, count) ==
    IF S.kind = "null" THEN [val |-> <<>>, err |-> TRUE]
    ELSE IF S.kind = "list" \/ d \notin DOMAIN S.map THEN [val |-> <<>>, err |-> TRUE]
    ELSE IF S.map[d].kind # "list" THEN [val |-> <<>>, err |-> TRUE]
    ELSE [val |-> PySlice(S.map[d].items, count), err |-> FALSE]

\* Leaderboard.get_top_scores: [val, err].
get_top_scores(S, d, count) ==
    IF S.kind = "null" THEN [val |-> <<>>, err |-> TRUE]
    ELSE IF S.kind = "list" \/ d \notin DOMAIN S.map THEN [val |-> <<>>, err |-> FALSE]
    ELSE IF S.map[d].kind # "list" THEN [val |-> <<>>, err |-> TRUE]
    ELSE [val |-> PySlice(S.map[d].items, count), err |-> FALSE]

\* The loop of get_rank counting equal scores as well.
RECURSIVE RankLoop_CountsEqual(_, _, _)
RankLoop_CountsEqual(items, sc, rank) ==
    IF items = <<>> THEN rank
    ELSE RankLoop_CountsEqual(Tail(items), sc, IF Head(items) >= sc THEN rank + 1 ELSE rank)

RECURSIVE RankLoop(_, _, _)
RankLoop(items, sc, rank) ==
    IF items = <<>> THEN rank
    ELSE RankLoop(Tail(items), sc, IF Head(items) > sc THEN rank + 1 ELSE rank)

\* Leaderboard.get_rank: [val, err].
get_rank(S, d, sc) ==
    IF S.kind = "null" THEN [val |-> 0, err |-> TRUE]
    ELSE IF S.kind = "list" \/ d \notin DOMAIN S.map THEN [val |-> 1, err |-> FALSE]
    ELSE IF S.map[d].kind # "list" THEN [val |-> 0, err |-> TRUE]
    ELSE [val |-> RankLoop(S.map[d].items, sc, 1), err |-> FALSE]

(***************************************************************************)
(* Bounds of the model                                                     *)
(***************************************************************************)
\* The clock readings the program can observe are the instants 0..MaxTime
\* whose offset inside a GAME_DURATION period is in Offsets.
MaxTime == 300
Offsets == {0, 3, 5, 10, 13}
TimePoints == {t \in 0..MaxTime : (t % GAME_DURATION) \in Offsets}

\* The values random.randint can return are those of CandXs and CandYs that
\* lie inside [margin, WIDTH - margin] and [margin, HEIGHT - margin].
CandXs == {100, 159, 160}
CandYs == {300}

Later(t) == {u \in TimePoints : u > t}
NextTime(t) == IF Later(t) = {} THEN t ELSE CHOOSE u \in Later(t) : \A v \in Later(t) : u <= v
\* What a reading of the clock can return right after a reading of t in the
\* same handler: t, or the next instant when it is at most MaxReadGap later.
MaxReadGap == 3
Readings(t) == {t} \cup {u \in {NextTime(t)} : u - t <= MaxReadGap}

(***************************************************************************)
(* Button and Target                                                       *)
(***************************************************************************)
Rect(x, y, w, h) == [x |-> x, y |-> y, w |-> w, h |-> h]

\* pygame.Rect.collidepoint: the right and bottom edges are outside.
collidepoint(r, pos) ==
    /\ r.x <= pos[1] /\ pos[1] < r.x + r.w
    /\ r.y <= pos[2] /\ pos[2] < r.y + r.h

\* Game.setup_home_screen: the rectangles do not depend on the selected tier.
play_button == Rect((WIDTH \div 2) - (200 \div 2), (HEIGHT \div 2) - 30, 200, 60)
leaderboard_button == Rect((WIDTH \div 2) - (200 \div 2), (HEIGHT \div 2) + 50, 200, 40)
difficulties == <<"Easy", "Medium", "Hard">>
difficulty_buttons ==
    LET total_width == 120 * 3 + 20 * 2
        start_x == (WIDTH \div 2) - (total_width \div 2)
    IN  [i \in 1..3 |-> Rect(start_x + (i - 1) * (120 + 20), (HEIGHT \div 2) + 120, 120, 40)]

\* Target.__init__ (the colour is cosmetic and left out).
Target(x, y, size, t) ==
    [x |-> x, y |-> y, size |-> size, radius |-> size \div 2,
     spawn_time |-> t, is_hit |-> FALSE, hit_time |-> 0]

\* Target.is_clicked
is_clicked(tg, pos) ==
    LET dx == tg.x - pos[1]
        dy == tg.y - pos[2]
    IN  (dx * dx + dy * dy) <= (tg.radius * tg.radius)

\* Target.hit, t the clock reading
hit(tg, t) == [tg EXCEPT !.is_hit = TRUE, !.hit_time = t]

\* is_animation_finished with a strict comparison.
is_animation_finished_Strict(tg, t) ==
    IF ~tg.is_hit THEN FALSE
    ELSE (t - tg.hit_time) > HIT_ANIMATION_DURATION

\* Target.is_animation_finished, t the clock reading
is_animation_finished(tg, t) ==
    IF ~tg.is_hit THEN FALSE
    ELSE (t - tg.hit_time) >= HIT_ANIMATION_DURATION

(***************************************************************************)
(* Game: helpers                                                           *)
(***************************************************************************)
\* reset_game that applies the default tier's parameters whatever is selected.
reset_game_IgnoresTier(d, t1, t2) ==
    LET settings == DIFFICULTY_SETTINGS["Medium"]
    IN  [target_size     |-> settings.target_size,
         spawn_rate      |-> settings.spawn_rate,
         max_targets     |-> settings.max_targets,
         score           |-> 0,
         targets         |-> <<>>,
         last_spawn_time |-> t1,
         game_start_time |-> t2]

\* Game.reset_game for the selected tier d; t1 and t2 are its two readings
\* of the clock, in program order.
reset_game(d, t1, t2) ==
    LET settings == DIFFICULTY_SETTINGS[d]
    IN  [target_size     |-> settings.target_size,
         spawn_rate      |-> settings.spawn_rate,
         max_targets     |-> settings.max_targets,
         score           |-> 0,
         targets         |-> <<>>,
         last_spawn_time |-> t1,
         game_start_time |-> t2]

AliveIndices(ts) == {i \in 1..Len(ts) : ~ts[i].is_hit}

\* The distance test rejecting a candidate at exactly target_size * 2 as well.
valid_position_RejectsBoundary(ts, size, x, y) ==
    \A i \in AliveIndices(ts) :
        LET dx == ts[i].x - x
            dy == ts[i].y - y
        IN  ~((dx * dx + dy * dy) <= (size * 2) * (size * 2))

\* The distance test comparing with target_size instead of target_size * 2.
valid_position_SingleSize(ts, size, x, y) ==
    \A i \in AliveIndices(ts) :
        LET dx == ts[i].x - x
            dy == ts[i].y - y
        IN  ~((dx * dx + dy * dy) < size * size)

\* The loop of Game.spawn_target over the targets that are not hit.  The code
\* compares (dx*dx + dy*dy) ** 0.5 with target_size * 2; on these integers
\* that is the comparison of the squares.
valid_position(ts, size, x, y) ==
    \A i \in AliveIndices(ts) :
        LET dx == ts[i].x - x
            dy == ts[i].y - y
        IN  ~((dx * dx + dy * dy) < (size * 2) * (size * 2))

\* spawn_target without the test of the number of targets that are not hit.
spawn_target_NoCountTest(ts, size, maxT, x, y, t) ==
    IF valid_position(ts, size, x, y) THEN Append(ts, Target(x, y, size, t)) ELSE ts

\* Game.spawn_target with the candidate (x, y) that random.randint returned
\* and the reading t that Target.__init__ takes.
spawn_target(ts, size, maxT, x, y, t) ==
    IF Cardinality(AliveIndices(ts)) < maxT
    THEN IF valid_position(ts, size, x, y) THEN Append(ts, Target(x, y, size, t)) ELSE ts
    ELSE ts

\* The list comprehension of Game.update: is_animation_finished reads the
\* clock once for every hit target, in list order.  The target at index i
\* gets the reading t when i < k and the later reading when i >= k.
LateReading(t) == CHOOSE u \in Readings(t) : \A v \in Readings(t) : v <= u
PurgeReading(i, t, k) == IF i < k THEN t ELSE LateReading(t)

RECURSIVE PurgeFrom(_, _, _, _)
PurgeFrom(ts, i, t, k) ==
    IF i > Len(ts) THEN <<>>
    ELSE IF is_animation_finished(ts[i], PurgeReading(i, t, k))
         THEN PurgeFrom(ts, i + 1, t, k)
         ELSE <<ts[i]>> \o PurgeFrom(ts, i + 1, t, k)

Purge(ts, t, k) == PurgeFrom(ts, 1, t, k)

\* The clock after the purge pass: the reading of the last hit target.
ClockAfterPurge(ts, t, k) ==
    IF \E i \in 1..Len(ts) : ts[i].is_hit /\ i >= k THEN LateReading(t) ELSE t

\* The loop of handle_events without the test that skips hit targets.
RECURSIVE FirstHitFrom_CountsHitTargets(_, _, _)
FirstHitFrom_CountsHitTargets(ts, pos, i) ==
    IF i > Len(ts) THEN 0
    ELSE IF is_clicked(ts[i], pos) THEN i
    ELSE FirstHitFrom_CountsHitTargets(ts, pos, i + 1)

\* The loop of handle_events over self.targets: the index of the first
\* target that is not hit and contains pos, 0 when there is none.
RECURSIVE FirstHitFrom(_, _, _)
FirstHitFrom(ts, pos, i) ==
    IF i > Len(ts) THEN 0
    ELSE IF ~ts[i].is_hit /\ is_clicked(ts[i], pos) THEN i
    ELSE FirstHitFrom(ts, pos, i + 1)

FirstHit(ts, pos) == FirstHitFrom(ts, pos, 1)

\* The miss penalty without the floor at 0.
MissPenalty_NoFloor(sc) == sc - 1

\* The miss penalty of handle_events.
MissPenalty(sc) == Max(0, sc - 1)

\* The difficulty after the loop over the difficulty buttons.
DifficultyAfterClick(d, pos) ==
    LET d1 == IF collidepoint(difficulty_buttons[1], pos) THEN difficulties[1] ELSE d
        d2 == IF collidepoint(difficulty_buttons[2], pos) THEN difficulties[2] ELSE d1
        d3 == IF collidepoint(difficulty_buttons[3], pos) THEN difficulties[3] ELSE d2
    IN  d3

\* The two button tests with the target states exchanged.
StateAfterHomeClick_Exchanged(pos) ==
    LET s1 == IF collidepoint(play_button, pos) THEN "leaderboard" ELSE "home"
    IN  IF collidepoint(leaderboard_button, pos) THEN "game" ELSE s1

\* The state after the two button tests of the "home" branch.
StateAfterHomeClick(pos) ==
    LET s1 == IF collidepoint(play_button, pos) THEN "game" ELSE "home"
    IN  IF collidepoint(leaderboard_button, pos) THEN "leaderboard" ELSE s1

\* remaining_time of Game.update and Game.draw_game at the reading t.
\* The spawn test measuring the interval from 0 instead of last_spawn_time.
spawn_due_IgnoresLastSpawn(current_time, last_spawn, rate) == current_time > rate

\* The spawn test of Game.update: strictly more than spawn_rate has passed.
spawn_due(current_time, last_spawn, rate) == current_time - last_spawn > rate

\* remaining_time without the max(0, ...).
remaining_time_NoClamp(t, start) == GAME_DURATION - (t - start)

remaining_time(t, start) == Max(0, GAME_DURATION - (t - start))

\* int(remaining_time) of Game.draw_game: whole seconds, the clock being in
\* tenths of a second.
displayed_time(t, start) == remaining_time(t, start) \div 10

(***************************************************************************)
(* Inputs                                                                  *)
(***************************************************************************)
SpawnXs(size) == CandXs \cap (size..(WIDTH - size))
SpawnYs(size) == CandYs \cap (size..(HEIGHT - size))

ClickPoints ==
    {<<400, 300>>, <<499, 329>>, <<500, 300>>,        \* play button, its corner, its right edge
     <<400, 370>>,                                    \* leaderboard button
     <<260, 440>>, <<400, 440>>, <<540, 440>>,        \* Easy, Medium, Hard
     <<10, 10>>,                                      \* empty space
     <<100, 300>>, <<160, 300>>,                      \* target centres
     <<115, 300>>, <<116, 300>>}                      \* 15 and 16 from (100, 300)

SaveOutcomes == {"ok", "fail_open", "fail_write"}

\* Contents of the leaderboard file at start-up.
WellFormedContent ==
    DictStore([Easy |-> ListEntry(<<80, 80, 50, 30>>), Medium |-> ListEntry(<<>>),
               Hard |-> ListEntry(<<2, 1, 0>>)])
FullContent ==
    DictStore([Easy |-> ListEntry(<<80, 80, 80, 50, 50, 50, 40, 30, 30, 30>>),
               Medium |-> ListEntry(<<30, 80>>), Hard |-> ListEntry(<<>>)])
PartialContent == DictStore([Easy |-> ListEntry(<<50>>)])
BadEntryContent ==
    DictStore([Easy |-> ListEntry(<<>>), Medium |-> IntEntry, Hard |-> ListEntry(<<>>)])

JsonFile(c) == [status |-> "json", content |-> c]
AbsentFile == [status |-> "absent", content |-> DefaultStore]
CorruptFile == [status |-> "corrupt", content |-> DefaultStore]

GameFiles == {JsonFile(WellFormedContent), JsonFile(BadEntryContent)}
AllFiles == {AbsentFile, CorruptFile, JsonFile(WellFormedContent), JsonFile(FullContent),
             JsonFile(PartialContent), JsonFile(BadEntryContent), JsonFile(ListStore),
             JsonFile(NullStore)}

Idle == [op |-> "init", arg |-> <<>>, res |-> <<>>]

(***************************************************************************)
(* Initial states: Game.__init__ (Leaderboard(), state, difficulty,        *)
(* reset_game) with the file f on disk.                                    *)
(***************************************************************************)
InitWith(f, t2) ==
    LET g == reset_game("Medium", 0, t2)
    IN  /\ run = "running"
        /\ now = t2
        /\ state = "home"
        /\ difficulty = "Medium"
        /\ target_size = g.target_size
        /\ spawn_rate = g.spawn_rate
        /\ max_targets = g.max_targets
        /\ score = g.score
        /\ targets = g.targets
        /\ last_spawn_time = g.last_spawn_time
        /\ game_start_time = g.game_start_time
        /\ file = f
        /\ scores = load(DefaultStore, f)
        /\ calls = 0
        /\ last = Idle

Init == \E f \in GameFiles, t2 \in Readings(0) : InitWith(f, t2)

(***************************************************************************)
(* The clock                                                               *)
(***************************************************************************)
AdvanceTime ==
    /\ run = "running"
    /\ \E u \in Later(now) : now' = u
    /\ UNCHANGED <<run, state, difficulty, target_size, spawn_rate, max_targets,
                   score, targets, last_spawn_time, game_start_time, scores, file,
                   calls, last>>

(***************************************************************************)
(* Game.handle_events: one action per event of the queue                   *)
(***************************************************************************)
\* pygame.QUIT
QuitEvent ==
    /\ run = "running"
    /\ run' = "exited"
    /\ last' = [op |-> "quit", arg |-> state, res |-> "exit"]
    /\ UNCHANGED <<gameVars, scores, file, calls>>

\* The test of the K_ESCAPE branch without "game".
EscapeGoesBack_NotFromGame(st) == st = "game_over" \/ st = "leaderboard"

\* The test of the K_ESCAPE branch: the states Escape leads back to "home" from.
EscapeGoesBack(st) == st = "game" \/ st = "game_over" \/ st = "leaderboard"

\* KEYDOWN K_ESCAPE in "game", "game_over" or "leaderboard"
EscapeBack ==
    /\ run = "running"
    /\ EscapeGoesBack(state)
    /\ state' = "home"
    /\ last' = [op |-> "escape", arg |-> state, res |-> "back"]
    /\ UNCHANGED <<run, now, difficulty, target_size, spawn_rate, max_targets,
                   score, targets, last_spawn_time, game_start_time, scores, file, calls>>

\* KEYDOWN K_ESCAPE in any other state
EscapeQuit ==
    /\ run = "running"
    /\ ~EscapeGoesBack(state)
    /\ run' = "exited"
    /\ last' = [op |-> "escape", arg |-> state, res |-> "exit"]
    /\ UNCHANGED <<gameVars, scores, file, calls>>

\* MOUSEBUTTONDOWN at pos in "home"; t2 is the second clock reading of reset_game.
ClickHome(pos, t2) ==
    /\ run = "running"
    /\ state = "home"
    /\ state' = StateAfterHomeClick(pos)
    /\ difficulty' = DifficultyAfterClick(difficulty, pos)
    /\ IF collidepoint(play_button, pos)
       THEN LET g == reset_game(difficulty, now, t2)
            IN  /\ target_size' = g.target_size
                /\ spawn_rate' = g.spawn_rate
                /\ max_targets' = g.max_targets
                /\ score' = g.score
                /\ targets' = g.targets
                /\ last_spawn_time' = g.last_spawn_time
                /\ game_start_time' = g.game_start_time
                /\ now' = t2
       ELSE /\ t2 = now
            /\ UNCHANGED <<target_size, spawn_rate, max_targets, score, targets,
                           last_spawn_time, game_start_time, now>>
    /\ last' = [op |-> "click", arg |-> state,
                res |-> IF collidepoint(play_button, pos) THEN "play"
                        ELSE IF state' # "home" THEN "leaderboard"
                        ELSE IF difficulty' # difficulty THEN "tier"
                        ELSE "none"]
    /\ UNCHANGED <<run, scores, file, calls>>

\* MOUSEBUTTONDOWN at pos in "game"
ClickGame(pos) ==
    /\ run = "running"
    /\ state = "game"
    /\ LET i == FirstHit(targets, pos)
       IN  IF i # 0
           THEN /\ targets' = [targets EXCEPT ![i] = hit(targets[i], now)]
                /\ score' = score + 1
                /\ last' = [op |-> "click", arg |-> state, res |-> "hit"]
           ELSE /\ targets' = targets
                /\ score' = MissPenalty(score)
                /\ last' = [op |-> "click", arg |-> state, res |-> "miss"]
    /\ UNCHANGED <<run, now, state, difficulty, target_size, spawn_rate, max_targets,
                   last_spawn_time, game_start_time, scores, file, calls>>

\* MOUSEBUTTONDOWN at pos in "game_over" or "leaderboard"
ClickBack(pos) ==
    /\ run = "running"
    /\ state \in {"game_over", "leaderboard"}
    /\ state' = "home"
    /\ last' = [op |-> "click", arg |-> state, res |-> "back"]
    /\ UNCHANGED <<run, now, difficulty, target_size, spawn_rate, max_targets,
                   score, targets, last_spawn_time, game_start_time, scores, file, calls>>

(***************************************************************************)
(* Game.update followed by Game.draw, the rest of the loop body of run     *)
(***************************************************************************)
\* The leaderboard reads of Game.draw (draw_leaderboard, draw_game_over) in
\* state st: [val, err].
draw(st, S, d, sc) ==
    IF st = "leaderboard" THEN get_top_scores(S, d, DEFAULT_COUNT)
    ELSE IF st = "game_over" THEN get_rank(S, d, sc)
    ELSE [val |-> 0, err |-> FALSE]

\* Outside "game" update changes button colours only; draw follows.
UpdateIdle ==
    /\ run = "running"
    /\ state # "game"
    /\ IF draw(state, scores, difficulty, score).err
       THEN /\ run' = "crashed"
            /\ last' = [op |-> "draw", arg |-> state, res |-> "error"]
       ELSE UNCHANGED <<run, last>>
    /\ UNCHANGED <<now, state, difficulty, target_size, spawn_rate, max_targets,
                   score, targets, last_spawn_time, game_start_time, scores, file, calls>>

\* The "game" branch; draw follows.  current_time is the reading now; w is
\* the outcome of the write of Leaderboard.save, (x, y) the candidate of
\* spawn_target, tS the reading of Target.__init__ and k the index at which
\* the clock advances during the purge pass.
UpdateGame(w, x, y, tS, k) ==
    /\ run = "running"
    /\ state = "game"
    /\ LET current_time == now
           over    == remaining_time(current_time, game_start_time) <= 0
           a       == add_score(scores, difficulty, score)
           doSpawn == spawn_due(current_time, last_spawn_time, spawn_rate)
           ts1     == IF doSpawn
                      THEN spawn_target(targets, target_size, max_targets, x, y, tS)
                      ELSE targets
           spawned == Len(ts1) > Len(targets)
           t1      == IF spawned THEN tS ELSE current_time
       IN  IF over /\ a.err
           THEN \* add_score raises: the exception leaves update and run
                /\ state' = "game_over"
                /\ run' = "crashed"
                /\ last' = [op |-> "update", arg |-> "commit", res |-> "error"]
                /\ UNCHANGED <<now, difficulty, target_size, spawn_rate, max_targets,
                               score, targets, last_spawn_time, game_start_time,
                               scores, file, calls>>
           ELSE /\ k \in 1..(Len(ts1) + 1)
                /\ state' = IF over THEN "game_over" ELSE state
                /\ scores' = IF over THEN a.store ELSE scores
                /\ file' = IF over THEN save(a.store, file, w) ELSE file
                /\ last_spawn_time' = IF doSpawn THEN current_time ELSE last_spawn_time
                /\ targets' = Purge(ts1, t1, k)
                /\ now' = ClockAfterPurge(ts1, t1, k)
                /\ run' = IF draw(state', scores', difficulty, score).err
                          THEN "crashed" ELSE run
                /\ last' = [op |-> "update",
                            arg |-> IF spawned THEN "spawned"
                                    ELSE IF doSpawn THEN "no_spawn" ELSE "wait",
                            res |-> IF over THEN "over" ELSE "playing"]
                /\ UNCHANGED <<difficulty, target_size, spawn_rate, max_targets,
                               score, game_start_time, calls>>

ClickHomeEvent == \E pos \in ClickPoints, t2 \in Readings(now) : ClickHome(pos, t2)
ClickGameEvent == \E pos \in ClickPoints : ClickGame(pos)
ClickBackEvent == \E pos \in ClickPoints : ClickBack(pos)
UpdateGameFrame ==
    \E w \in SaveOutcomes, x \in SpawnXs(target_size), y \in SpawnYs(target_size),
       tS \in Readings(now), k \in 1..(Len(targets) + 2) : UpdateGame(w, x, y, tS, k)

Next ==
    \/ AdvanceTime
    \/ QuitEvent
    \/ EscapeBack
    \/ EscapeQuit
    \/ ClickHomeEvent
    \/ ClickGameEvent
    \/ ClickBackEvent
    \/ UpdateIdle
    \/ UpdateGameFrame

Spec == Init /\ [][Next]_vars

(***************************************************************************)
(* The Leaderboard on its own: the calls the Game makes on it, with their  *)
(* arguments drawn from small sets.  An exception that leaves a call ends   *)
(* the program.                                                            *)
(***************************************************************************)
MaxCalls == 3
TierArgs == {"Easy", "Medium", "Insane"}
AddTierArgs == {"Easy", "Insane"}
AddScoreArgs == {30, 50, 80}
RankScoreArgs == {40, 80, 90}
CountArgs == {0, 2, DEFAULT_COUNT}

InitLB == \E f \in AllFiles : InitWith(f, 0)

CallAddScore(d, s, w) ==
    /\ run = "running" /\ calls < MaxCalls
    /\ calls' = calls + 1
    /\ LET a == add_score(scores, d, s)
       IN  IF a.err
           THEN /\ run' = "crashed"
                /\ last' = [op |-> "add_score", arg |-> <<d, s>>, res |-> "error"]
                /\ UNCHANGED <<scores, file>>
           ELSE /\ run' = run
                /\ scores' = a.store
                /\ file' = save(a.store, file, w)
                /\ last' = [op |-> "add_score", arg |-> <<d, s>>, res |-> w]
    /\ UNCHANGED gameVars

CallGetTopScores(d, n) ==
    /\ run = "running" /\ calls < MaxCalls
    /\ calls' = calls + 1
    /\ LET r == get_top_scores(scores, d, n)
       IN  /\ run' = IF r.err THEN "crashed" ELSE run
           /\ last' = [op |-> "get_top_scores", arg |-> <<d, n>>,
                       res |-> r.val]
    /\ UNCHANGED <<gameVars, scores, file>>

CallGetRank(d, sc) ==
    /\ run = "running" /\ calls < MaxCalls
    /\ calls' = calls + 1
    /\ LET r == get_rank(scores, d, sc)
       IN  /\ run' = IF r.err THEN "crashed" ELSE run
           /\ last' = [op |-> "get_rank", arg |-> <<d, sc>>,
                       res |-> r.val]
    /\ UNCHANGED <<gameVars, scores, file>>

NextLB ==
    \/ \E d \in AddTierArgs, s \in AddScoreArgs, w \in SaveOutcomes : CallAddScore(d, s, w)
    \/ \E d \in TierArgs, n \in CountArgs : CallGetTopScores(d, n)
    \/ \E d \in TierArgs, sc \in RankScoreArgs : CallGetRank(d, sc)

SpecLB == InitLB /\ [][NextLB]_vars

(***************************************************************************)
(* The spawn phase of a session, frame by frame: the same handlers with    *)
(* the clock observed every 2 s and with enough candidate positions for    *)
(* the number of targets on screen to reach max_targets of the Easy tier   *)
(* and for a further candidate to be clear of all of them.                 *)
(***************************************************************************)
SessionTimes == {0, 20, 40, 60, 80, 100}
SessionXs == {100, 179, 180, 260, 340, 420}
SessionClickPoints ==
    {<<400, 300>>,                  \* play button
     <<260, 440>>, <<400, 440>>,    \* Easy, Medium
     <<100, 300>>,                  \* a target centre
     <<120, 300>>, <<121, 300>>}    \* 20 and 21 from it

InitSession == InitWith(JsonFile(WellFormedContent), 0)

AdvanceSessionTime ==
    /\ run = "running"
    /\ \E u \in SessionTimes : u > now /\ now' = u
    /\ UNCHANGED <<run, state, difficulty, target_size, spawn_rate, max_targets,
                   score, targets, last_spawn_time, game_start_time, scores, file,
                   calls, last>>

SessionClickHome == \E pos \in SessionClickPoints : ClickHome(pos, now)
SessionClickGame == \E pos \in SessionClickPoints : ClickGame(pos)
\* A frame in "game" whose spawn_target draws the candidate (x, y).
SessionUpdateWith(x, y) == UpdateGame("ok", x, y, now, 1)
UpdateSessionFrame ==
    \E x \in SessionXs \cap (target_size..(WIDTH - target_size)),
       y \in SpawnYs(target_size) : SessionUpdateWith(x, y)

\* The opening of a session on the Easy tier: the player selects Easy, clicks
\* Play and lets the frames run.
OpeningClickHome ==
    \E pos \in {<<260, 440>>, <<400, 300>>} :
        /\ collidepoint(play_button, pos) => difficulty = "Easy"
        /\ ClickHome(pos, now)

NextOpening ==
    \/ AdvanceSessionTime
    \/ OpeningClickHome
    \/ UpdateSessionFrame

SpecOpening == InitSession /\ [][NextOpening]_vars

\* Six seconds into a session on the Easy tier started at 0: the frames at
\* 2, 4 and 6 s have spawned targets at 100, 180 and 260.  SpecOpening
\* reaches this state.
CrowdState ==
    LET g == reset_game("Easy", 0, 0)
    IN  /\ run = "running"
        /\ now = 60
        /\ state = "game"
        /\ difficulty = "Easy"
        /\ target_size = g.target_size
        /\ spawn_rate = g.spawn_rate
        /\ max_targets = g.max_targets
        /\ score = g.score
        /\ targets = <<Target(100, 300, g.target_size, 20),
                       Target(180, 300, g.target_size, 40),
                       Target(260, 300, g.target_size, 60)>>
        /\ last_spawn_time = 60
        /\ game_start_time = g.game_start_time
        /\ file = JsonFile(WellFormedContent)
        /\ scores = load(DefaultStore, JsonFile(WellFormedContent))
        /\ calls = 0
        /\ last = [op |-> "update", arg |-> "spawned", res |-> "playing"]

\* The session from that state on, with every event of the player.
NextCrowd ==
    \/ AdvanceSessionTime
    \/ EscapeBack
    \/ SessionClickHome
    \/ SessionClickGame
    \/ UpdateIdle
    \/ UpdateSessionFrame

SpecCrowd == CrowdState /\ [][NextCrowd]_vars

(***************************************************************************)
(* The same session with candidates spread over the plane: pairs of        *)
(* positions at exactly 2 * target_size along an axis and along a          *)
(* diagonal (48, 64), one unit closer than that, and the corners of the    *)
(* area the candidates of the Easy tier are drawn from.                    *)
(***************************************************************************)
FieldPoints ==
    {<<100, 300>>, <<100, 380>>, <<148, 364>>, <<147, 364>>,
     <<340, 300>>, <<40, 40>>, <<760, 560>>}
\* A frame in "game" whose spawn_target draws its candidate from FieldPoints:
\* random.randint(margin, WIDTH - margin) and random.randint(margin,
\* HEIGHT - margin) with margin = target_size.
UpdateFieldFrame ==
    \E c \in FieldPoints :
        /\ c[1] \in target_size..(WIDTH - target_size)
        /\ c[2] \in target_size..(HEIGHT - target_size)
        /\ SessionUpdateWith(c[1], c[2])

NextField ==
    \/ AdvanceSessionTime
    \/ EscapeBack
    \/ SessionClickHome
    \/ SessionClickGame
    \/ UpdateIdle
    \/ UpdateFieldFrame

SpecField == CrowdState /\ [][NextField]_vars

(***************************************************************************)
(* The countdown of a session: the same handlers with the clock observed   *)
(* at its start, half a second before and after its end, and with a single *)
(* candidate position.                                                     *)
(***************************************************************************)
CountdownTimes == {0, 5, 295, 300, 305}
CountdownClickPoints == {<<400, 300>>, <<100, 300>>}

AdvanceCountdownTime ==
    /\ run = "running"
    /\ \E u \in CountdownTimes : u > now /\ now' = u
    /\ UNCHANGED <<run, state, difficulty, target_size, spawn_rate, max_targets,
                   score, targets, last_spawn_time, game_start_time, scores, file,
                   calls, last>>

CountdownClickHome == \E pos \in CountdownClickPoints : ClickHome(pos, now)
CountdownClickGame == \E pos \in CountdownClickPoints : ClickGame(pos)
CountdownClickBack == \E pos \in CountdownClickPoints : ClickBack(pos)
UpdateCountdownFrame == \E w \in SaveOutcomes : UpdateGame(w, 100, 300, now, 1)

NextCountdown ==
    \/ AdvanceCountdownTime
    \/ EscapeBack
    \/ CountdownClickHome
    \/ CountdownClickGame
    \/ CountdownClickBack
    \/ UpdateIdle
    \/ UpdateCountdownFrame

SpecCountdown == InitSession /\ [][NextCountdown]_vars

(***************************************************************************)
(* Properties of the Leaderboard (checked under SpecLB)                    *)
(***************************************************************************)
\* The sequence of scores a store holds for tier d (empty when it holds none).
StoredItems(S, d) ==
    IF S.kind = "dict" /\ d \in DOMAIN S.map /\ S.map[d].kind = "list"
    THEN S.map[d].items
    ELSE <<>>

IsSortedDesc(s) == \A i \in 1..(Len(s) - 1) : s[i] >= s[i + 1]
Occurrences(s, v) == Cardinality({i \in 1..Len(s) : s[i] = v})
Values(s) == {s[i] : i \in 1..Len(s)}

\* new holds the n largest values of all, duplicates counted.
IsLargestOf(new, all, n) ==
    /\ Len(new) = Min(n, Len(all))
    /\ \A v \in Values(all) \cup Values(new) :
          /\ Occurrences(new, v) <= Occurrences(all, v)
          /\ Occurrences(new, v) < Occurrences(all, v) => \A u \in Values(new) : v <= u

AddScoreReturned == calls' = calls + 1 /\ last'.op = "add_score" /\ run' = "running"
GetRankReturned == calls' = calls + 1 /\ last'.op = "get_rank" /\ run' = "running"
GetTopScoresReturned ==
    calls' = calls + 1 /\ last'.op = "get_top_scores" /\ run' = "running"

\* C7: after every add_score(d, s) that returns, the sequence stored for d is
\* sorted in descending order, has at most 10 entries and holds exactly the
\* 10 largest values (duplicates kept) of the previous sequence plus s, and
\* the entries of all other keys are unchanged.
C7_AddScoreKeepsTopTen ==
    [][AddScoreReturned =>
        LET d   == last'.arg[1]
            s   == last'.arg[2]
            old == StoredItems(scores, d)
            new == StoredItems(scores', d)
        IN  /\ scores'.kind = "dict" /\ d \in DOMAIN scores'.map
            /\ IsSortedDesc(new)
            /\ Len(new) <= 10
            /\ IsLargestOf(new, Append(old, s), 10)
            /\ DOMAIN scores'.map = DOMAIN scores.map \cup {d}
            /\ \A k \in DOMAIN scores.map \ {d} : scores'.map[k] = scores.map[k]]_vars

\* C7 witness: an eleventh score was added to a full tier and the lowest dropped.
C7_Witness ==
    /\ last.op = "add_score" /\ last.arg = <<"Easy", 80>> /\ last.res = "ok"
    /\ calls = 1
    /\ StoredItems(scores, "Easy") = <<80, 80, 80, 80, 50, 50, 50, 40, 30, 30>>

\* The example of the specification: 80, 30, 80 added to a tier holding 50.
C7_Example ==
    /\ last.op = "add_score" /\ last.arg = <<"Easy", 80>>
    /\ calls = 3
    /\ StoredItems(scores, "Easy") = <<80, 80, 50, 30>>
    /\ StoredItems(file.content, "Easy") = <<80, 80, 50, 30>>

\* C8 (as claimed): get_rank gives 1 + the number of stored scores strictly
\* greater than the score, so that with [80, 80, 50, 30] stored the rank of
\* 80 is 1 and the rank of 40 is 3.
C8_RankAsClaimed ==
    [][GetRankReturned =>
        LET d     == last'.arg[1]
            sc    == last'.arg[2]
            items == StoredItems(scores, d)
            rank  == last'.res
        IN  /\ rank = 1 + Cardinality({i \in 1..Len(items) : items[i] > sc})
            /\ (items = <<80, 80, 50, 30>> /\ sc = 80) => rank = 1
            /\ (items = <<80, 80, 50, 30>> /\ sc = 40) => rank = 3]_vars

\* C8 (amended): every get_rank(d, sc) that returns gives 1 + the number of
\* scores stored for d that are strictly greater than sc; the result is >= 1,
\* stored scores equal to sc do not raise it, it is 1 when no stored score
\* exceeds sc, and the store is not modified.  With [80, 80, 50, 30] stored
\* the rank of 80 is 1 and the rank of 40 is 4.
C8_RankCountsStrictlyGreater ==
    [][GetRankReturned =>
        LET d     == last'.arg[1]
            sc    == last'.arg[2]
            items == StoredItems(scores, d)
            rank  == last'.res
        IN  /\ rank = 1 + Cardinality({i \in 1..Len(items) : items[i] > sc})
            /\ rank >= 1
            /\ (\A i \in 1..Len(items) : sc >= items[i]) => rank = 1
            /\ (items = <<80, 80, 50, 30>> /\ sc = 80) => rank = 1
            /\ (items = <<80, 80, 50, 30>> /\ sc = 40) => rank = 4
            /\ scores' = scores /\ file' = file]_vars

\* C8 witness: with [80, 80, 50, 30] stored, the rank of 40 was asked for.
C8_Witness ==
    /\ last = [op |-> "get_rank", arg |-> <<"Easy", 40>>, res |-> 4]
    /\ StoredItems(scores, "Easy") = <<80, 80, 50, 30>>
    /\ run = "running"

\* The other example: with [80, 80, 50, 30] stored, the rank of 80 is 1.
C8_Example ==
    /\ last = [op |-> "get_rank", arg |-> <<"Easy", 80>>, res |-> 1]
    /\ StoredItems(scores, "Easy") = <<80, 80, 50, 30>>

\* C9: every get_top_scores(d, n) that returns gives the first n entries of
\* the sequence stored for d, all of them when it holds fewer; on a store that
\* is a mapping without the key d, get_top_scores returns the empty sequence
\* and get_rank returns 1, no error is raised and d is not added to the store.
C9_TopScoresPrefix ==
    [][/\ GetTopScoresReturned =>
            LET d     == last'.arg[1]
                n     == last'.arg[2]
                items == StoredItems(scores, d)
                top   == last'.res
            IN  /\ Len(top) = Min(n, Len(items))
                /\ \A i \in 1..Len(top) : top[i] = items[i]
                /\ scores' = scores
       /\ \A d \in TierArgs :
            (/\ calls' = calls + 1
             /\ last'.op \in {"get_top_scores", "get_rank"}
             /\ last'.arg[1] = d
             /\ scores.kind = "dict" /\ d \notin DOMAIN scores.map)
            => /\ last'.op = "get_rank" => last'.res = 1
               /\ last'.op = "get_top_scores" => last'.res = <<>>
               /\ run' = "running"
               /\ scores' = scores]_vars

\* C9 witness: the top scores of a tier the store has no key for.
C9_Witness ==
    /\ last = [op |-> "get_top_scores", arg |-> <<"Insane", DEFAULT_COUNT>>, res |-> <<>>]
    /\ scores.kind = "dict" /\ "Insane" \notin DOMAIN scores.map
    /\ run = "running"

\* The first n of a longer sequence.
C9_Example ==
    /\ last = [op |-> "get_top_scores", arg |-> <<"Easy", 2>>, res |-> <<80, 80>>]
    /\ StoredItems(scores, "Easy") = <<80, 80, 50, 30>>

\* The shape the leaderboard file is documented to have.
IsLeaderboardShape(S) ==
    /\ S.kind = "dict"
    /\ Tiers \subseteq DOMAIN S.map
    /\ \A d \in DOMAIN S.map : S.map[d].kind = "list"

\* C10 (as claimed): when the file is absent, unreadable or malformed the
\* store after load is the all-empty default, and no later call on the three
\* tiers raises an error.
C10_LoadFallsBackToDefault ==
    /\ (calls = 0 /\ (file.status # "json" \/ ~IsLeaderboardShape(file.content)))
            => scores = DefaultStore
    /\ ~(run = "crashed" /\ last.arg[1] \in Tiers)

(***************************************************************************)
(* Properties of the Game (checked under Spec)                             *)
(***************************************************************************)
\* Some target that is not hit contains the point pos.
HitsAlive(pos) ==
    \E i \in 1..Len(targets) :
        /\ ~targets[i].is_hit
        /\ (targets[i].x - pos[1]) * (targets[i].x - pos[1])
           + (targets[i].y - pos[2]) * (targets[i].y - pos[2])
           <= targets[i].radius * targets[i].radius

EscapeKey == EscapeBack \/ EscapeQuit

\* C1: the score is an integer >= 0 in every reachable state; a click handled
\* in "game" that hits a target that is not hit raises the score by exactly 1
\* and a click that hits none sets it to max(0, score - 1).
C1_ScoreNonNegative ==
    /\ [](score \in Nat)
    /\ [][\A pos \in ClickPoints :
            ClickGame(pos) =>
                IF HitsAlive(pos)
                THEN score' = score + 1
                ELSE score' = (IF score >= 1 THEN score - 1 ELSE 0)]_vars

\* C1 witness: a miss was handled in "game" and left the score at 0.
C1_Witness ==
    /\ last = [op |-> "click", arg |-> "game", res |-> "miss"]
    /\ state = "game" /\ score = 0 /\ targets # <<>>

\* A hit raised the score to 2.
C1_Example ==
    /\ last = [op |-> "click", arg |-> "game", res |-> "hit"]
    /\ score = 2

\* C2: the state starts at "home" and every change of state is one of
\* home -> game (click on the play button), home -> leaderboard (click on the
\* leaderboard button), game -> game_over (update with the remaining time at
\* 0), game_over -> home and leaderboard -> home (a click or Escape) and
\* game -> home (Escape); a click on a difficulty button at "home" keeps the
\* state and selects that button's tier, and nothing else changes the tier.
C2_Transitions ==
    /\ state = "home"
    /\ [][/\ state' # state =>
               \/ /\ state = "home" /\ state' = "game"
                  /\ \E pos \in ClickPoints, t2 \in Readings(now) :
                        collidepoint(play_button, pos) /\ ClickHome(pos, t2)
               \/ /\ state = "home" /\ state' = "leaderboard"
                  /\ \E pos \in ClickPoints :
                        collidepoint(leaderboard_button, pos) /\ ClickHome(pos, now)
               \/ /\ state = "game" /\ state' = "game_over"
                  /\ remaining_time(now, game_start_time) = 0
                  /\ UpdateGameFrame
               \/ /\ state \in {"game_over", "leaderboard"} /\ state' = "home"
                  /\ ClickBackEvent \/ EscapeKey
               \/ /\ state = "game" /\ state' = "home"
                  /\ EscapeKey
          /\ difficulty' # difficulty =>
               /\ state = "home" /\ state' = "home"
               /\ \E pos \in ClickPoints, i \in 1..3 :
                     /\ collidepoint(difficulty_buttons[i], pos)
                     /\ ClickHome(pos, now)
                     /\ difficulty' = difficulties[i]
          /\ \A pos \in ClickPoints, i \in 1..3 :
               (collidepoint(difficulty_buttons[i], pos) /\ ClickHome(pos, now))
               => (state' = "home" /\ difficulty' = difficulties[i])]_vars

\* C2 witness: the Hard button was clicked at "home" after a session that
\* reached "game_over".
C2_Witness ==
    /\ last = [op |-> "click", arg |-> "home", res |-> "tier"]
    /\ state = "home" /\ difficulty = "Hard"
    /\ file.status = "json" /\ StoredItems(file.content, "Medium") # <<>>

\* C3: a play click handled at "home" leads to "game" with score 0, no
\* targets, last_spawn_time and game_start_time read from the clock while the
\* click is handled, and target_size, spawn_rate and max_targets those of the
\* preset of the selected tier, whatever the previous session left behind.
C3_PlayResetsSession ==
    [][\A pos \in ClickPoints, t2 \in Readings(now) :
        (collidepoint(play_button, pos) /\ ClickHome(pos, t2)) =>
            /\ state' = "game"
            /\ score' = 0
            /\ targets' = <<>>
            /\ now <= last_spawn_time' /\ last_spawn_time' <= game_start_time'
            /\ game_start_time' = now'
            /\ difficulty' = difficulty
            /\ target_size' = DIFFICULTY_SETTINGS[difficulty].target_size
            /\ spawn_rate' = DIFFICULTY_SETTINGS[difficulty].spawn_rate
            /\ max_targets' = DIFFICULTY_SETTINGS[difficulty].max_targets]_vars

\* C3 witness: a Hard session was started after a Medium session committed a
\* score of 1 (the tier was changed at "home" in between).
C3_Witness ==
    /\ last = [op |-> "click", arg |-> "home", res |-> "play"]
    /\ state = "game" /\ difficulty = "Hard" /\ target_size = 20
    /\ score = 0 /\ targets = <<>>
    /\ StoredItems(scores, "Medium") = <<1>>

\* C4 (as claimed): an update in "game" with the remaining time at 0 moves to
\* "game_over" and adds the score of the session to the leaderboard under the
\* selected tier, the tier whose settings the session was played with.
C4_ExpiryCommitsScore ==
    [][(state = "game" /\ remaining_time(now, game_start_time) = 0 /\ UpdateGameFrame) =>
        /\ state' = "game_over"
        /\ run' = "running"
        /\ target_size = DIFFICULTY_SETTINGS[difficulty].target_size
        /\ IsLargestOf(StoredItems(scores', difficulty),
                       Append(StoredItems(scores, difficulty), score), 10)
        /\ IsSortedDesc(StoredItems(scores', difficulty))]_vars

\* C5: Escape at "home" ends the process and nothing is processed afterwards;
\* Escape in "game" leads to "home" and leaves the leaderboard store and file
\* unchanged; the store and the file change only in an update that runs in
\* "game" with the remaining time at 0, and "game" is entered only with the
\* score reset to 0, so the score of an abandoned session is never committed.
C5_EscapeQuitsOrAbandons ==
    [][/\ (EscapeKey /\ state = "home") => run' = "exited"
       /\ (EscapeKey /\ state = "game") =>
              (state' = "home" /\ run' = "running" /\ scores' = scores /\ file' = file)
       /\ run # "running" => UNCHANGED vars
       /\ (scores' # scores \/ file' # file) =>
              /\ state = "game" /\ state' = "game_over"
              /\ remaining_time(now, game_start_time) = 0
              /\ UpdateGameFrame
       /\ (state # "game" /\ state' = "game") => score' = 0]_vars

\* C5 witness: a session with a score of 1 was abandoned with Escape.
C5_Witness ==
    /\ last = [op |-> "escape", arg |-> "game", res |-> "back"]
    /\ state = "home" /\ score = 1 /\ run = "running"

\* Escape at "home" ended the process.
C5_Example ==
    /\ last = [op |-> "escape", arg |-> "home", res |-> "exit"]
    /\ run = "exited"

\* C6 (as claimed): once GAME_DURATION has elapsed since game_start_time, no
\* click changes the score of the session or marks one of its targets hit.
C6_NoScoringAfterExpiry ==
    [][(state = "game" /\ now - game_start_time >= GAME_DURATION /\ ClickGameEvent) =>
        (score' = score /\ targets' = targets)]_vars

\* An add_score call was made (whether it returned or raised).
AddScoreCalled == calls' = calls + 1 /\ last'.op = "add_score"

\* What every add_score(d, s) that returns leaves behind: the store holds the
\* sorted, truncated sequence with s merged in; when the write succeeded the
\* file holds that store and a later load gives it back; when the write
\* failed the store is kept in memory all the same.
AddScoreWriteOutcome ==
    [][AddScoreReturned =>
        LET d == last'.arg[1]
            s == last'.arg[2]
        IN  /\ scores' = add_score(scores, d, s).store
            /\ last'.res = "ok" =>
                  (file' = JsonFile(scores') /\ load(DefaultStore, file') = scores')
            /\ last'.res = "fail_open" => file' = file]_vars

\* C11 (as claimed): no error leaves add_score: every call returns, and after
\* it either the file holds the in-memory store (so that a later load gives
\* the same store) or the write failed and the in-memory store holds the
\* sequence with the new score merged in, sorted and truncated.
C11_AddScoreNeverRaises ==
    [][AddScoreCalled =>
        LET d == last'.arg[1]
            s == last'.arg[2]
        IN  /\ run' = "running"
            /\ scores' = add_score(scores, d, s).store
            /\ IsSortedDesc(StoredItems(scores', d))
            /\ Len(StoredItems(scores', d)) <= TOP_SCORES_KEPT
            /\ \/ file' = JsonFile(scores') /\ load(DefaultStore, file') = scores'
               \/ last'.res # "ok"]_vars

\* C12: within a session (game_start_time unchanged) the remaining time never
\* increases from one step to the next; it is never negative, it is 0 exactly
\* when at least GAME_DURATION has elapsed since game_start_time, and the
\* displayed value is its floor in whole seconds.
C12_RemainingTimeCountsDown ==
    /\ [](LET rem == remaining_time(now, game_start_time)
              shown == displayed_time(now, game_start_time)
          IN  /\ rem >= 0 /\ rem <= GAME_DURATION
              /\ (rem = 0) <=> (now - game_start_time >= GAME_DURATION)
              /\ shown \in Nat
              /\ shown * 10 <= rem /\ rem < (shown + 1) * 10)
    /\ [][game_start_time' = game_start_time =>
             remaining_time(now', game_start_time') <= remaining_time(now, game_start_time)]_vars

\* C12 witness: a frame of a session has run and the clock now shows more
\* than GAME_DURATION since the start of the session.
C12_Witness ==
    /\ state = "game" /\ last.op = "update"
    /\ now - game_start_time > GAME_DURATION
    /\ remaining_time(now, game_start_time) = 0

\* Half a second into a session the display shows 29.
C12_Example ==
    /\ state = "game" /\ last.op = "update"
    /\ remaining_time(now, game_start_time) = 295
    /\ displayed_time(now, game_start_time) = 29

(***************************************************************************)
(* Properties of the targets                                               *)
(***************************************************************************)
AliveCount(ts) == Cardinality(AliveIndices(ts))
AliveTargets(ts) == SelectSeq(ts, LAMBDA tg : ~tg.is_hit)
HitTargets(ts) == SelectSeq(ts, LAMBDA tg : tg.is_hit)

\* The square of the Euclidean distance between target tg and the point (x, y).
DistanceSquared(tg, x, y) == (tg.x - x) * (tg.x - x) + (tg.y - y) * (tg.y - y)

\* The step added a target at (x, y): one more target is alive and the last
\* target of the list is a fresh one at (x, y).
AppendedAt(x, y) ==
    /\ AliveCount(targets') = AliveCount(targets) + 1
    /\ Len(targets') > 0
    /\ LET new == targets'[Len(targets')]
       IN  new.x = x /\ new.y = y /\ new.size = target_size /\ ~new.is_hit

\* C13: an update in "game" whose candidate is (x, y) appends a target at
\* (x, y) if and only if more than spawn_rate has passed since
\* last_spawn_time, fewer than max_targets targets are alive, and the
\* candidate is at distance >= 2 * target_size from every alive target; hit
\* targets neither count nor reject.  A candidate is always inside
\* [target_size, WIDTH - target_size] x [target_size, HEIGHT - target_size].
C13_SpawnRule ==
    [][\A x \in SessionXs, y \in CandYs :
          (state = "game" /\ last'.op = "update" /\ now' = now /\ SessionUpdateWith(x, y)) =>
              /\ AppendedAt(x, y) <=>
                    /\ now - last_spawn_time > spawn_rate
                    /\ AliveCount(targets) < max_targets
                    /\ \A i \in 1..Len(targets) :
                          targets[i].is_hit \/
                          DistanceSquared(targets[i], x, y)
                              >= (2 * target_size) * (2 * target_size)
              /\ ~AppendedAt(x, y) => AliveTargets(targets') = AliveTargets(targets)
              /\ AppendedAt(x, y) =>
                    /\ target_size <= x /\ x <= WIDTH - target_size
                    /\ target_size <= y /\ y <= HEIGHT - target_size]_vars

\* C13 witness: a target was spawned at exactly 2 * target_size from an alive
\* one, on top of a hit target that is still in the list.
C13_Witness ==
    /\ state = "game" /\ last.op = "update" /\ last.arg = "spawned"
    /\ target_size = 40
    /\ \E i, j, k \in 1..Len(targets) :
          /\ i < k /\ j < k /\ k = Len(targets)
          /\ targets[i].is_hit /\ targets[i].x = 100
          /\ ~targets[j].is_hit /\ targets[j].x = 180
          /\ ~targets[k].is_hit /\ targets[k].x = 100

\* A spawn was due with fewer than max_targets alive and no target was added:
\* the candidate was too close to an alive target.
C13_Example ==
    /\ state = "game" /\ last.op = "update" /\ last.arg = "no_spawn"
    /\ AliveCount(targets) < max_targets
    /\ \E i \in 1..Len(targets) : ~targets[i].is_hit /\ targets[i].x = 100

\* C14: a frame in "game" that finds more than spawn_rate passed since
\* last_spawn_time makes one spawn attempt and sets last_spawn_time to the
\* time of the frame whether a target was added or not; any other frame adds
\* no target and leaves last_spawn_time alone.  So a frame adds at most one
\* target, and within a session last_spawn_time moves by more than spawn_rate.
C14_SpawnCadence ==
    [][/\ (state = "game" /\ last'.op = "update" /\ now' = now /\ UpdateSessionFrame) =>
             /\ AliveCount(targets') <= AliveCount(targets) + 1
             /\ Len(targets') <= Len(targets) + 1
             /\ IF now - last_spawn_time > spawn_rate
                THEN /\ last_spawn_time' = now
                     /\ last'.arg \in {"spawned", "no_spawn"}
                ELSE /\ last_spawn_time' = last_spawn_time
                     /\ AliveTargets(targets') = AliveTargets(targets)
                     /\ last'.arg = "wait"
       /\ (last_spawn_time' # last_spawn_time /\ game_start_time' = game_start_time) =>
             last_spawn_time' - last_spawn_time > spawn_rate
       /\ last_spawn_time' # last_spawn_time =>
             (UpdateSessionFrame \/ SessionClickHome)]_vars

\* C14 witness: a spawn was due with max_targets targets alive; no target was
\* added and last_spawn_time was set to the time of the frame.
C14_Witness ==
    /\ state = "game" /\ last.op = "update" /\ last.arg = "no_spawn"
    /\ AliveCount(targets) = max_targets
    /\ last_spawn_time = now /\ now = 100

\* A spawn was due and its candidate was rejected; last_spawn_time was set.
C14_Example ==
    /\ state = "game" /\ last.op = "update" /\ last.arg = "no_spawn"
    /\ AliveCount(targets) = 3 /\ Len(targets) = 3
    /\ last_spawn_time = now /\ now = 80

\* a is b with some of its elements left out, the order kept.
RECURSIVE IsSubSeq(_, _)
IsSubSeq(a, b) ==
    IF a = <<>> THEN TRUE
    ELSE IF b = <<>> THEN FALSE
    ELSE IF Head(a) = Head(b) THEN IsSubSeq(Tail(a), Tail(b))
    ELSE IsSubSeq(a, Tail(b))

\* The targets of ts that are not hit and whose circle contains pos.
AliveContaining(ts, pos) ==
    {i \in 1..Len(ts) :
        /\ ~ts[i].is_hit
        /\ DistanceSquared(ts[i], pos[1], pos[2]) <= ts[i].radius * ts[i].radius}

\* C15: a click handled in "game" marks hit exactly the first target in list
\* (spawn) order that is alive and whose circle contains the click point, and
\* adds 1 to the score; it changes no other target, and with no such target it
\* changes no target at all.  No other step marks a target hit, none makes a
\* hit target alive again, and the score never rises by more than 1.
C15_FirstAliveTargetIsHit ==
    [][/\ \A pos \in SessionClickPoints :
             (state = "game" /\ last'.op = "click" /\ ClickGame(pos)) =>
                 LET C == AliveContaining(targets, pos)
                 IN  /\ Len(targets') = Len(targets)
                     /\ IF C = {}
                        THEN targets' = targets /\ score' = Max(0, score - 1)
                        ELSE LET f == CHOOSE i \in C : \A j \in C : i <= j
                             IN  /\ targets'[f] = [targets[f] EXCEPT !.is_hit = TRUE,
                                                                     !.hit_time = now]
                                 /\ \A i \in 1..Len(targets) \ {f} : targets'[i] = targets[i]
                                 /\ score' = score + 1
       /\ ~(state = "game" /\ SessionClickGame) =>
             /\ IsSubSeq(HitTargets(targets'), HitTargets(targets))
             /\ score' <= score
       /\ \/ IsSubSeq(AliveTargets(targets'), AliveTargets(targets))
          \/ /\ Len(targets') > 0
             /\ targets'[Len(targets')].spawn_time = now'
             /\ AliveTargets(targets') =
                   Append(AliveTargets(targets), targets'[Len(targets')])
       /\ score' <= score + 1]_vars

\* C15 witness: a click at the centre of two targets on the same spot, the
\* first already hit, marked the second one hit.
C15_Witness ==
    /\ state = "game" /\ last.op = "click" /\ last.res = "hit"
    /\ score = 2
    /\ \E i, j \in 1..Len(targets) :
          /\ i < j
          /\ targets[i].x = 100 /\ targets[j].x = 100
          /\ targets[i].is_hit /\ targets[j].is_hit
          /\ targets[i].spawn_time < targets[j].spawn_time
          /\ targets[i].hit_time = now /\ targets[j].hit_time = now

\* A click outside every target left them all alive and the score at 0.
C15_Example ==
    /\ state = "game" /\ last.op = "click" /\ last.res = "miss"
    /\ target_size = 40 /\ Len(targets) = 3 /\ AliveCount(targets) = 3
    /\ score = 0 /\ now = 60

\* The targets of ts that are not both hit and HIT_ANIMATION_DURATION or more
\* past their hit_time at time t, in the order of ts.
KeptAt(ts, t) ==
    SelectSeq(ts, LAMBDA tg : ~(tg.is_hit /\ t - tg.hit_time >= HIT_ANIMATION_DURATION))

\* A frame in "game" that ran to its end.
GameFrameCompleted ==
    state = "game" /\ last'.op = "update" /\ last'.res # "error" /\ UpdateGameFrame

\* What the purge does with the readings it takes: each test reads the
\* clock, so a target is tested at a time between the time of the frame (now)
\* and the time at the end of the pass (now').  Alive targets are kept, the
\* kept targets stay in their order, the result lies between the filter at
\* now' and the filter at now, and it is the filter at now when the clock
\* stands still during the pass.
PurgeBetweenReadings ==
    [][GameFrameCompleted =>
        LET before == IF last'.arg = "spawned"
                      THEN Append(targets, targets'[Len(targets')])
                      ELSE targets
        IN  /\ IsSubSeq(targets', KeptAt(before, now))
            /\ IsSubSeq(KeptAt(before, now'), targets')
            /\ now' = now => targets' = KeptAt(before, now)
            /\ KeptAt(targets', now) = targets'
            /\ Purge(targets', now, Len(targets') + 1) = targets'
            /\ \A i \in 1..Len(targets) :
                  ~targets[i].is_hit => \E j \in 1..Len(targets') : targets'[j] = targets[i]]_vars

\* C16 (as claimed): the purge at the end of a frame in "game" whose time is
\* now removes exactly the targets that are hit with
\* now - hit_time >= HIT_ANIMATION_DURATION: alive targets and hit targets
\* whose animation has not lasted that long at now are kept, in their order,
\* and purging the result again with the same now changes nothing.
C16_PurgeExactlyFinishedHits ==
    [][GameFrameCompleted =>
        LET before == IF last'.arg = "spawned"
                      THEN Append(targets, targets'[Len(targets')])
                      ELSE targets
        IN  /\ \A i \in 1..Len(before) :
                  (before[i].is_hit /\ now - before[i].hit_time >= HIT_ANIMATION_DURATION)
                      <=> ~(\E j \in 1..Len(targets') : targets'[j] = before[i])
            /\ IsSubSeq(targets', before)
            /\ KeptAt(targets', now) = targets']_vars

\* A target hit at 1.0 s was removed by the frame at 1.3 s, the
\* animation having lasted exactly HIT_ANIMATION_DURATION.
C16_Witness ==
    /\ state = "game" /\ last.op = "update" /\ last.arg = "wait"
    /\ now = 13 /\ last_spawn_time = 10 /\ game_start_time = 0
    /\ score = 1 /\ targets = <<>>

\* A frame kept a target hit less than HIT_ANIMATION_DURATION before.
C16_Example ==
    /\ state = "game" /\ last.op = "update"
    /\ Len(targets) = 1 /\ targets[1].is_hit
    /\ now - targets[1].hit_time < HIT_ANIMATION_DURATION

(***************************************************************************)
(* The frame loop under fair scheduling: frames keep running and the clock *)
(* keeps advancing (up to MaxTime).                                        *)
(***************************************************************************)
FairSpec == Spec /\ WF_vars(AdvanceTime) /\ WF_vars(UpdateGameFrame)

\* Every session that can end before MaxTime leaves "game": by the update
\* that finds the remaining time at 0, unless Escape or QUIT came first.
SessionEventuallyEnds ==
    (state = "game" /\ game_start_time + GAME_DURATION <= MaxTime /\ run = "running")
        ~> (state # "game" \/ run # "running")

\* The hit times after which the clock still reaches hit_time + 0.3 s.
PurgeableHitTimes == {h \in TimePoints : h + HIT_ANIMATION_DURATION <= MaxTime}

HitAt(h) == \E i \in 1..Len(targets) : targets[i].is_hit /\ targets[i].hit_time = h

\* While the session stays in "game", a hit target is removed by a later frame.
HitPurgedWhilePlaying ==
    \A h \in PurgeableHitTimes :
        (HitAt(h) /\ run = "running") ~> (~HitAt(h) \/ state # "game" \/ run # "running")

\* C17 (as claimed): with frames running and the clock advancing, every target
\* marked hit is eventually removed from the list of targets, whatever events
\* follow the hit (clicks, Escape) and whether or not the session reaches
\* "game_over" (unless the process ends).
C17_HitEventuallyPurged ==
    \A h \in PurgeableHitTimes :
        (HitAt(h) /\ run = "running") ~> (~HitAt(h) \/ run # "running")

\* C18 (as claimed): a frame in "game" uses one reading of the clock, the time
\* of the frame, for the countdown, for the spawn test and the new
\* last_spawn_time, for the spawn_time of the target it spawns and for the
\* animation test of every target.
C18_OneTimestampPerFrame ==
    [][GameFrameCompleted =>
        LET before == IF last'.arg = "spawned"
                      THEN Append(targets, targets'[Len(targets')])
                      ELSE targets
        IN  /\ (state' = "game_over") <=> (remaining_time(now, game_start_time) = 0)
            /\ last'.arg # "wait" => last_spawn_time' = now
            /\ last'.arg = "spawned" => targets'[Len(targets')].spawn_time = now
            /\ targets' = KeptAt(before, now)]_vars

\* C19 (as claimed): the store and the file change only in the step from
\* "game" to "game_over", and every such step adds the score of the session
\* under its tier, so that the commits are as many as these steps; no step
\* taken in "game_over", "home" or "leaderboard" changes the store, and the
\* score and tier shown in "game_over" are the ones that were committed.
C19_OneCommitPerGameOver ==
    [][/\ (state = "game" /\ state' = "game_over") =>
              /\ ~add_score(scores, difficulty, score).err
              /\ run' = "running"
              /\ scores' = add_score(scores, difficulty, score).store
              /\ score' = score /\ difficulty' = difficulty
       /\ (scores' # scores \/ file' # file) => (state = "game" /\ state' = "game_over")
       /\ (state = "game_over" /\ state' = "game_over") =>
              (score' = score /\ difficulty' = difficulty)]_vars

\* C20: the number of targets that are not hit never exceeds max_targets,
\* and max_targets is the value of the tier the session was started with
\* (4, 6 or 8).
C20_AliveWithinMax ==
    /\ AliveCount(targets) <= max_targets
    /\ max_targets \in {DIFFICULTY_SETTINGS[d].max_targets : d \in Tiers}
    /\ state = "game" => max_targets = DIFFICULTY_SETTINGS[difficulty].max_targets
    /\ DIFFICULTY_SETTINGS["Easy"].max_targets = 4
    /\ DIFFICULTY_SETTINGS["Medium"].max_targets = 6
    /\ DIFFICULTY_SETTINGS["Hard"].max_targets = 8

\* C20 witness: with max_targets targets alive one was hit, and the next
\* frame spawned a target again: max_targets are alive next to the hit one.
C20_Witness ==
    /\ state = "game" /\ last.op = "update" /\ last.arg = "spawned"
    /\ max_targets = 4 /\ AliveCount(targets) = 4 /\ Len(targets) = 5

\* A session restarted on the Medium tier after Escape has spawned a target.
C20_Example ==
    /\ state = "game" /\ difficulty = "Medium" /\ max_targets = 6
    /\ AliveCount(targets) = 1 /\ game_start_time = 80

\* The points a click is probed at: the centres of the candidate positions,
\* the points of their circles nearest to a neighbour, and the points half
\* way between neighbours.
ProbePoints ==
    {<<x, y>> : x \in {40, 100, 112, 120, 124, 136, 140, 148, 160, 180},
                y \in {40, 300, 316, 320, 332, 340, 348, 364, 380}}

\* C21: any two targets that are not hit have centres at Euclidean distance
\* >= 2 * target_size, and the centre of every target of the list lies in
\* [target_size, WIDTH - target_size] x [target_size, HEIGHT - target_size];
\* every target has size target_size and radius target_size / 2, so the
\* circles of two alive targets are disjoint: no click point is inside more
\* than one alive target, and the target a click hits is the only alive one
\* that contains it.
C21_AliveTargetsApart ==
    /\ \A i, j \in AliveIndices(targets) :
          i # j =>
              /\ DistanceSquared(targets[i], targets[j].x, targets[j].y)
                     >= (2 * target_size) * (2 * target_size)
              /\ DistanceSquared(targets[i], targets[j].x, targets[j].y)
                     > (targets[i].radius + targets[j].radius)
                          * (targets[i].radius + targets[j].radius)
    /\ \A i \in 1..Len(targets) :
          /\ target_size <= targets[i].x /\ targets[i].x <= WIDTH - target_size
          /\ target_size <= targets[i].y /\ targets[i].y <= HEIGHT - target_size
          /\ targets[i].size = target_size
          /\ 2 * targets[i].radius = target_size
    /\ \A pos \in ProbePoints :
          /\ Cardinality(AliveContaining(targets, pos)) <= 1
          /\ AliveContaining(targets, pos) # {} =>
                 AliveContaining(targets, pos) = {FirstHit(targets, pos)}

\* C21 witness: a frame has spawned a target at exactly 2 * target_size from
\* an alive one along a diagonal, (100, 300) and (148, 364) on the Easy tier,
\* and a click at a point of the first circle is inside that target alone.
C21_Witness ==
    /\ state = "game" /\ last.op = "update" /\ last.arg = "spawned"
    /\ target_size = 40
    /\ \E i, j \in AliveIndices(targets) :
          /\ i < j /\ j = Len(targets)
          /\ targets[i].x = 100 /\ targets[i].y = 300
          /\ targets[j].x = 148 /\ targets[j].y = 364
          /\ DistanceSquared(targets[i], 148, 364) = (2 * target_size) * (2 * target_size)
    /\ AliveContaining(targets, <<112, 316>>) = {FirstHit(targets, <<112, 316>>)}

\* A candidate one unit nearer than 2 * target_size to the alive target at
\* (100, 300) was refused with fewer than max_targets alive.
C21_Example ==
    /\ state = "game" /\ last.op = "update" /\ last.arg = "no_spawn"
    /\ target_size = 40 /\ AliveCount(targets) = 1 /\ Len(targets) = 1
    /\ targets[1].x = 100 /\ targets[1].y = 300
    /\ last_spawn_time = now /\ game_start_time < now

\* Targets sit in two corners of the area the candidates are drawn from.
C21_Corners ==
    /\ state = "game" /\ target_size = 40
    /\ \E i, j \in AliveIndices(targets) :
          /\ targets[i].x = 40 /\ targets[i].y = 40
          /\ targets[j].x = 760 /\ targets[j].y = 560

====
